---- MODULE Spec2Model ----
(***************************************************************************)
(* StrategyEngine of run.py: an event-driven engine that stores ticks,     *)
(* contracts and positions, subscribes market data, and trades a three-    *)
(* tick momentum rule.  One action per event handler; the gateway calls    *)
(* and the events put on the event engine are recorded as sequences.       *)
(***************************************************************************)
EXTENDS Integers, Sequences, FiniteSets, TLC

\* ---------------------------------------------------------------- bounds
MaxTicks == 6
MaxContractEvents == 2
MaxPositionEvents == 3
FewTicks == 1

Symbols == {"A", "B"}
Prices == {10, 11, 12}
Sizes == {5}
Volumes == {1, 2}
Directions == {"LONG", "SHORT"}

\* ------------------------------------------------------ program constants
MinHistory == 3
PriceOffset == 10
OrderVolume == 1
FlatTarget == 0
\* a long target of two units
LongTargetTwo == 1 + 1
LongTarget == 1

VARIABLES
    ticks,            \* dict vt_symbol -> TickData (latest tick)
    contracts,        \* dict vt_symbol -> ContractData
    positions,        \* dict vt_positionid -> PositionData, in insertion order
    subscribed,       \* set of vt_symbol subscribed by the position path
    tick_history,     \* defaultdict(list): vt_symbol -> list of TickData
    trading_symbols,  \* set of vt_symbol loaded from setting.json
    trading_targets,  \* defaultdict(int): vt_symbol -> target
    gateway_subscribes, \* vt_symbol -> calls of gateway.subscribe, in call order
    gateway_orders,   \* vt_symbol -> calls of gateway.send_order, in call order
    events_put,       \* vt_symbol -> events put on the event engine, in call order
    printed,          \* lines printed by the latest handler
    raised,           \* exception the latest handler ended with, or "none"
    received,         \* events delivered so far: kind -> vt_symbol -> count
    budget,           \* events the environment delivers at most: kind -> count
    orders_rejected,  \* vt_symbol -> per send_order call: did the gateway
                      \* reject it (the call returns nothing to the engine)
    phase,            \* how far StrategyEngine.__init__ has got
    setting           \* setting.json: its status, and the symbols that
                      \* load_setting has not added yet

vars == <<ticks, contracts, positions, subscribed, tick_history,
          trading_symbols, trading_targets, gateway_subscribes,
          gateway_orders, events_put, printed, raised, received, budget,
          orders_rejected, phase, setting>>

\* ------------------------------------------------------------- helpers
RECURSIVE SumOver(_, _)
SumOver(f, S) ==
    IF S = {} THEN 0
    ELSE LET x == CHOOSE y \in S : TRUE IN f[x] + SumOver(f, S \ {x})

Delivered(kind) == SumOver(received[kind], Symbols)

\* a run is either long on ticks or long on contract and position events
Budgets ==
    { [tick |-> MaxTicks, contract |-> 1, position |-> 0],
      [tick |-> FewTicks, contract |-> MaxContractEvents,
       position |-> MaxPositionEvents] }

\* ------------------------------------------------------- data objects
TickData(vt_symbol, last_price, datetime) ==
    [vt_symbol |-> vt_symbol, last_price |-> last_price, datetime |-> datetime]

\* symbol and exchange of a contract are the two halves of its vt_symbol;
\* the model keeps them together as vt_symbol.
ContractData(vt_symbol, size) ==
    [vt_symbol |-> vt_symbol, size |-> size]

VtPositionId(vt_symbol, direction) == <<vt_symbol, direction>>

PositionData(vt_symbol, direction, volume) ==
    [vt_positionid |-> VtPositionId(vt_symbol, direction),
     vt_symbol |-> vt_symbol, direction |-> direction, volume |-> volume]

SubscribeRequest(contract, via) ==
    [vt_symbol |-> contract.vt_symbol, via |-> via]

OrderRequest(contract, direction, price, offset) ==
    [vt_symbol |-> contract.vt_symbol, direction |-> direction,
     type |-> "LIMIT", price |-> price, volume |-> OrderVolume,
     offset |-> offset]

\* ------------------------------------------------------- __init__
Init ==
    /\ ticks = << >>
    /\ contracts = << >>
    /\ positions = << >>
    /\ subscribed = {}
    /\ tick_history = [s \in Symbols |-> << >>]
    /\ trading_symbols \in SUBSET Symbols
    /\ trading_targets = [s \in Symbols |-> 0]
    /\ gateway_subscribes = [s \in Symbols |-> << >>]
    /\ gateway_orders = [s \in Symbols |-> << >>]
    /\ events_put = [s \in Symbols |-> << >>]
    /\ printed = << >>
    /\ raised = "none"
    /\ received = [k \in {"tick", "contract", "position"} |->
                      [s \in Symbols |-> 0]]
    /\ budget \in Budgets
    /\ orders_rejected = [s \in Symbols |-> << >>]
    /\ phase = "loaded"
    /\ setting = [status |-> "ok", symbols |-> << >>]

\* ------------------------------------------------------- write_log
LogEvent(msg) == [type |-> "eLog", msg |-> msg]

\* ------------------------------------------------------- run_trading
EnoughHistory(history) == Len(history) >= MinHistory

\* the long check with >= in place of >
LongCheckNonStrict(tick1, tick2, tick3) ==
    tick1.last_price >= tick2.last_price /\ tick2.last_price >= tick3.last_price

LongCheck(tick1, tick2, tick3) ==
    tick1.last_price > tick2.last_price /\ tick2.last_price > tick3.last_price

\* the short check with the comparisons of the long check
ShortCheckAsLong(tick1, tick2, tick3) ==
    tick1.last_price > tick2.last_price /\ tick2.last_price > tick3.last_price

ShortCheck(tick1, tick2, tick3) ==
    tick1.last_price < tick2.last_price /\ tick2.last_price < tick3.last_price

\* the long check without its target gate
BuyGateOpen(target) == TRUE

BuyGate(target) == target = 0

\* the short check without its target gate
SellGateOpen(target) == TRUE

SellGate(target) == target > 0

BuyPrice(tick1) == tick1.last_price + PriceOffset

\* the sell price with the offset added in place of subtracted
SellPricePlus(tick1) == tick1.last_price + PriceOffset

SellPrice(tick1) == tick1.last_price - PriceOffset

StrategyEvent(vt_symbol, tick, target) ==
    [type |-> "eStrategy", vt_symbol |-> vt_symbol,
     datetime |-> tick.datetime, last_price |-> tick.last_price,
     trading_target |-> target]

\* history is the list tick_history[vt_symbol] as the caller left it
run_trading(vt_symbol, history) ==
    IF ~EnoughHistory(history)
    THEN /\ raised' = "none"
         /\ UNCHANGED <<trading_targets, gateway_orders, events_put, orders_rejected>>
    ELSE
    LET tick1 == history[Len(history)]
        tick2 == history[Len(history) - 1]
        tick3 == history[Len(history) - 2]
    IN  IF vt_symbol \notin DOMAIN contracts
        THEN /\ raised' = "KeyError"
             /\ UNCHANGED <<trading_targets, gateway_orders, events_put, orders_rejected>>
        ELSE
        LET contract == contracts[vt_symbol]
            target0 == trading_targets[vt_symbol]
            buy == LongCheck(tick1, tick2, tick3) /\ BuyGate(target0)
            target1 == IF buy THEN LongTarget ELSE target0
            sell == ShortCheck(tick1, tick2, tick3) /\ SellGate(target1)
            target2 == IF sell THEN FlatTarget ELSE target1
            buy_req == OrderRequest(contract, "LONG", BuyPrice(tick1), "OPEN")
            sell_req == OrderRequest(contract, "SHORT", SellPrice(tick1), "CLOSE")
            buy_log == LogEvent(<<vt_symbol, "buy open 1", tick1.datetime>>)
            sell_log == LogEvent(<<vt_symbol, "sell close 1", tick1.datetime>>)
        IN  /\ gateway_orders' = [gateway_orders EXCEPT ![vt_symbol] = @
                    \o (IF buy THEN <<buy_req>> ELSE << >>)
                    \o (IF sell THEN <<sell_req>> ELSE << >>)]
            /\ trading_targets' = [trading_targets EXCEPT ![vt_symbol] = target2]
            /\ events_put' = [events_put EXCEPT ![vt_symbol] = @
                    \o (IF buy THEN <<buy_log>> ELSE << >>)
                    \o (IF sell THEN <<sell_log>> ELSE << >>)
                    \o <<StrategyEvent(vt_symbol, tick1, target2)>>]
            /\ \E rejected \in BOOLEAN :
                  orders_rejected' = [orders_rejected EXCEPT ![vt_symbol] = @
                    \o (IF buy THEN <<rejected>> ELSE << >>)
                    \o (IF sell THEN <<rejected>> ELSE << >>)]
            /\ raised' = "none"

\* ------------------------------------------------------- process_tick_event
\* one list shared by all symbols in place of one list per symbol
AppendHistoryShared(vt_symbol, tick) ==
    [s \in Symbols |-> Append(tick_history[s], tick)]

\* the tick inserted at the front in place of appended
AppendHistoryFront(vt_symbol, tick) ==
    [tick_history EXCEPT ![vt_symbol] = <<tick>> \o @]

AppendHistory(vt_symbol, tick) ==
    [tick_history EXCEPT ![vt_symbol] = Append(@, tick)]

process_tick_event(tick) ==
    /\ Delivered("tick") < budget["tick"]
    /\ received' = [received EXCEPT !["tick"][tick.vt_symbol] = @ + 1]
    /\ ticks' = (tick.vt_symbol :> tick) @@ ticks
    /\ IF tick.vt_symbol \in trading_symbols
       THEN /\ tick_history' = AppendHistory(tick.vt_symbol, tick)
            /\ run_trading(tick.vt_symbol, tick_history'[tick.vt_symbol])
       ELSE /\ raised' = "none"
            /\ UNCHANGED <<tick_history, trading_targets, gateway_orders,
                           events_put, orders_rejected>>
    /\ UNCHANGED <<contracts, positions, subscribed, trading_symbols,
                   gateway_subscribes, budget, phase, setting>>
    /\ printed' = << >>

\* ------------------------------------------------------- process_contract_event
\* the contract handler also recording its subscription in self.subscribed
process_contract_event_recording(contract) ==
    /\ Delivered("contract") < budget["contract"]
    /\ received' = [received EXCEPT !["contract"][contract.vt_symbol] = @ + 1]
    /\ contracts' = (contract.vt_symbol :> contract) @@ contracts
    /\ IF contract.vt_symbol \in trading_symbols
       THEN /\ gateway_subscribes' =
                [gateway_subscribes EXCEPT ![contract.vt_symbol] =
                    Append(@, SubscribeRequest(contract, "contract"))]
            /\ subscribed' = subscribed \cup {contract.vt_symbol}
       ELSE UNCHANGED <<gateway_subscribes, subscribed>>
    /\ raised' = "none"
    /\ UNCHANGED <<ticks, positions, tick_history, trading_symbols,
                   trading_targets, gateway_orders, events_put, budget,
                   orders_rejected, phase, setting>>
    /\ printed' = << >>

process_contract_event(contract) ==
    /\ Delivered("contract") < budget["contract"]
    /\ received' = [received EXCEPT !["contract"][contract.vt_symbol] = @ + 1]
    /\ contracts' = (contract.vt_symbol :> contract) @@ contracts
    /\ IF contract.vt_symbol \in trading_symbols
       THEN gateway_subscribes' =
                [gateway_subscribes EXCEPT ![contract.vt_symbol] =
                    Append(@, SubscribeRequest(contract, "contract"))]
       ELSE UNCHANGED gateway_subscribes
    /\ raised' = "none"
    /\ UNCHANGED <<ticks, positions, subscribed, tick_history, trading_symbols,
                   trading_targets, gateway_orders, events_put, budget,
                   orders_rejected, phase, setting>>
    /\ printed' = << >>

\* ------------------------------------------------------- process_position_event
PositionIndex(vt_positionid) ==
    {i \in 1..Len(positions) : positions[i].vt_positionid = vt_positionid}

\* the dict replaced by the new entry in place of the entry stored in it
StorePositionOnly(position) == <<position>>

\* self.positions[position.vt_positionid] = position
StorePosition(position) ==
    IF PositionIndex(position.vt_positionid) = {}
    THEN Append(positions, position)
    ELSE [i \in 1..Len(positions) |->
            IF positions[i].vt_positionid = position.vt_positionid
            THEN position ELSE positions[i]]

\* the position handler without its "already subscribed" return
AlreadySubscribedNever(vt_symbol) == FALSE

AlreadySubscribed(vt_symbol) == vt_symbol \in subscribed

\* the set replaced by the new key in place of the key added to it
AddSubscribedReplace(vt_symbol) == {vt_symbol}

AddSubscribed(vt_symbol) == subscribed \cup {vt_symbol}

process_position_event(position) ==
    /\ Delivered("position") < budget["position"]
    /\ received' = [received EXCEPT !["position"][position.vt_symbol] = @ + 1]
    /\ positions' = StorePosition(position)
    /\ IF AlreadySubscribed(position.vt_symbol)
       THEN UNCHANGED <<gateway_subscribes, subscribed>>
       ELSE IF position.vt_symbol \notin DOMAIN contracts
       THEN UNCHANGED <<gateway_subscribes, subscribed>>
       ELSE /\ gateway_subscribes' =
                [gateway_subscribes EXCEPT ![position.vt_symbol] =
                    Append(@, SubscribeRequest(contracts[position.vt_symbol],
                                               "position"))]
            /\ subscribed' = AddSubscribed(position.vt_symbol)
    /\ raised' = "none"
    /\ UNCHANGED <<ticks, contracts, tick_history, trading_symbols,
                   trading_targets, gateway_orders, events_put, budget,
                   orders_rejected, phase, setting>>
    /\ printed' = << >>

\* ------------------------------------------------------- calculate_value
\* the market value without the contract size
MarketValueNoSize(position, tick, contract) ==
    position.volume * tick.last_price

MarketValue(position, tick, contract) ==
    position.volume * tick.last_price * contract.size

MissingData(position) ==
    \/ position.vt_symbol \notin DOMAIN ticks
    \/ position.vt_symbol \notin DOMAIN contracts

ValueLine(position) ==
    [vt_symbol |-> position.vt_symbol, direction |-> position.direction,
     value |-> MarketValue(position, ticks[position.vt_symbol],
                           contracts[position.vt_symbol])]

RECURSIVE ValueLines(_)
ValueLines(ps) ==
    IF ps = << >> THEN << >>
    ELSE IF MissingData(Head(ps)) THEN ValueLines(Tail(ps))
    ELSE <<ValueLine(Head(ps))>> \o ValueLines(Tail(ps))

calculate_value ==
    /\ printed' = ValueLines(positions)
    /\ raised' = "none"
    /\ UNCHANGED <<ticks, contracts, positions, subscribed, tick_history,
                   trading_symbols, trading_targets, gateway_subscribes,
                   gateway_orders, events_put, received, budget,
                   orders_rejected, phase, setting>>

\* ------------------------------------------------------- event delivery
TickEvent ==
    \E s \in Symbols, p \in Prices :
        process_tick_event(TickData(s, p, received["tick"][s] + 1))

ContractEvent ==
    \E s \in Symbols, z \in Sizes :
        process_contract_event(ContractData(s, z))

PositionEvent ==
    \E s \in Symbols, d \in Directions, v \in Volumes :
        process_position_event(PositionData(s, d, v))

TimerEvent == calculate_value

Next ==
    \/ TickEvent
    \/ ContractEvent
    \/ PositionEvent
    \/ TimerEvent

Spec == Init /\ [][Next]_vars

\* ------------------------------------------------------- startup
\* main starts the event engine and connects the gateway before it creates
\* the StrategyEngine, and __init__ registers the handlers before it calls
\* load_setting: the event thread runs the handlers while the main thread
\* is still in (or has failed in) load_setting.
Settings ==
    { [status |-> "missing", symbols |-> << >>],
      [status |-> "unparsable", symbols |-> << >>],
      [status |-> "ok", symbols |-> << >>],
      [status |-> "ok", symbols |-> <<"A">>],
      [status |-> "ok", symbols |-> <<"A", "B">>] }

StartupBudgets == { [tick |-> 3, contract |-> 1, position |-> 1] }

\* the state when __init__ reaches its call of load_setting
InitStartup ==
    /\ ticks = << >>
    /\ contracts = << >>
    /\ positions = << >>
    /\ subscribed = {}
    /\ tick_history = [s \in Symbols |-> << >>]
    /\ trading_symbols = {}
    /\ trading_targets = [s \in Symbols |-> 0]
    /\ gateway_subscribes = [s \in Symbols |-> << >>]
    /\ gateway_orders = [s \in Symbols |-> << >>]
    /\ events_put = [s \in Symbols |-> << >>]
    /\ printed = << >>
    /\ raised = "none"
    /\ received = [k \in {"tick", "contract", "position"} |->
                      [s \in Symbols |-> 0]]
    /\ budget \in StartupBudgets
    /\ orders_rejected = [s \in Symbols |-> << >>]
    /\ phase = "created"
    /\ setting \in Settings

\* open("setting.json") and json.load: either raises out of __init__ and main
open_setting ==
    /\ phase = "created"
    /\ phase' = IF setting.status = "ok" THEN "loading" ELSE "failed"
    /\ UNCHANGED <<ticks, contracts, positions, subscribed, tick_history,
                   trading_symbols, trading_targets, gateway_subscribes,
                   gateway_orders, events_put, printed, raised, received,
                   budget, orders_rejected, setting>>

\* one iteration of the loop over vt_symbols
add_symbol ==
    /\ phase = "loading"
    /\ setting.symbols # << >>
    /\ trading_symbols' = trading_symbols \cup {Head(setting.symbols)}
    /\ setting' = [setting EXCEPT !.symbols = Tail(@)]
    /\ UNCHANGED <<ticks, contracts, positions, subscribed, tick_history,
                   trading_targets, gateway_subscribes, gateway_orders,
                   events_put, printed, raised, received, budget,
                   orders_rejected, phase>>

\* the loop ends, load_setting and __init__ return
end_load_setting ==
    /\ phase = "loading"
    /\ setting.symbols = << >>
    /\ phase' = "loaded"
    /\ UNCHANGED <<ticks, contracts, positions, subscribed, tick_history,
                   trading_symbols, trading_targets, gateway_subscribes,
                   gateway_orders, events_put, printed, raised, received,
                   budget, orders_rejected, setting>>

NextStartup ==
    \/ open_setting
    \/ add_symbol
    \/ end_load_setting
    \/ TickEvent
    \/ ContractEvent
    \/ PositionEvent
    \/ TimerEvent

SpecStartup == InitStartup /\ [][NextStartup]_vars

\* =================================================================
\* Properties
\* =================================================================
SubscribeCount(s, via) ==
    Cardinality({i \in 1..Len(gateway_subscribes[s]) :
                    gateway_subscribes[s][i].via = via})

HasPosition(s) == \E i \in 1..Len(positions) : positions[i].vt_symbol = s

\* a step that handled a tick / contract / position event of s
TickStep(s) == received'["tick"][s] = received["tick"][s] + 1
ContractStep(s) == received'["contract"][s] = received["contract"][s] + 1
PositionStep(s) == received'["position"][s] = received["position"][s] + 1
\* a step that ran a valuation pass (every event handler counts its event)
TimerStep == received' = received

\* what the step's handler added to the gateway's and the event engine's logs
NewOrders(s) ==
    SubSeq(gateway_orders'[s], Len(gateway_orders[s]) + 1, Len(gateway_orders'[s]))
NewEvents(s) ==
    SubSeq(events_put'[s], Len(events_put[s]) + 1, Len(events_put'[s]))

CountType(seq, type) ==
    Cardinality({i \in 1..Len(seq) : seq[i].type = type})

\* price of the k-th newest entry of a history
PriceAt(h, k) == h[Len(h) - k + 1].last_price
Rising(h) == Len(h) >= 3 /\ PriceAt(h, 1) > PriceAt(h, 2) /\ PriceAt(h, 2) > PriceAt(h, 3)
Falling(h) == Len(h) >= 3 /\ PriceAt(h, 1) < PriceAt(h, 2) /\ PriceAt(h, 2) < PriceAt(h, 3)
Plateau(h) == Len(h) >= 3 /\ (PriceAt(h, 1) = PriceAt(h, 2) \/ PriceAt(h, 2) = PriceAt(h, 3))

IsBuy(req) == req.direction = "LONG" /\ req.offset = "OPEN"
IsSell(req) == req.direction = "SHORT" /\ req.offset = "CLOSE"

\* the latest tick of s went through the whole of run_trading
Evaluated(s) ==
    /\ Len(tick_history[s]) >= 3
    /\ Len(events_put[s]) > 0
    /\ events_put[s][Len(events_put[s])].type = "eStrategy"
    /\ events_put[s][Len(events_put[s])].datetime =
           tick_history[s][Len(tick_history[s])].datetime

\* -----------------------------------------------------------------
\* C1: the position handler issues at most one subscribe request per
\* instrument over the whole run, however many position events arrive.
C1_PositionPathAtMostOnce ==
    \A s \in Symbols : SubscribeCount(s, "position") <= 1

\* three position events of one instrument with a known contract, one request
C1_Witness ==
    \E s \in Symbols :
        /\ received["position"][s] >= 3
        /\ s \in DOMAIN contracts
        /\ s \in subscribed
        /\ SubscribeCount(s, "position") = 1

\* -----------------------------------------------------------------
\* C2: a Position event without a known contract followed by the Contract
\* event of the same instrument: no subscribe request before the Contract
\* event, exactly one once it has been handled (trading set or not).
C2_PositionThenContract ==
    [][\A s \in Symbols :
          (ContractStep(s) /\ s \notin DOMAIN contracts /\ HasPosition(s))
          => (/\ Len(gateway_subscribes[s]) = 0
              /\ Len(gateway_subscribes'[s]) = 1)]_vars

\* -----------------------------------------------------------------
\* C3: over both paths an instrument is subscribed at most once, and exactly
\* once when its contract is known and it is traded or has a position.
C3_ExactlyOncePerInstrument ==
    \A s \in Symbols :
        /\ Len(gateway_subscribes[s]) <= 1
        /\ (s \in DOMAIN contracts /\ (s \in trading_symbols \/ HasPosition(s)))
           => Len(gateway_subscribes[s]) = 1

\* -----------------------------------------------------------------
\* C4: a tick of a traded instrument in state Flat whose three newest prices
\* rise strictly sends exactly one buy-to-open limit order of volume 1 at
\* t1 + 10, sets the target to 1 and puts one log event.
C4_Effect(s) ==
    /\ NewOrders(s) =
         <<[vt_symbol |-> s, direction |-> "LONG", type |-> "LIMIT",
            price |-> ticks'[s].last_price + 10, volume |-> 1,
            offset |-> "OPEN"]>>
    /\ trading_targets'[s] = 1
    /\ CountType(NewEvents(s), "eLog") = 1

C4_BuyToOpen ==
    [][\A s \in trading_symbols :
          (TickStep(s) /\ trading_targets[s] = 0 /\ Rising(tick_history'[s]))
          => C4_Effect(s)]_vars

\* the same with the contract of the instrument stored: the only way C4
\* fails is the KeyError of run_trading on a missing contract
C4_BuyToOpenKnownContract ==
    [][\A s \in trading_symbols :
          (TickStep(s) /\ trading_targets[s] = 0 /\ Rising(tick_history'[s])
             /\ s \in DOMAIN contracts)
          => C4_Effect(s)]_vars

\* -----------------------------------------------------------------
\* C5: a tick of a traded instrument in state Long whose three newest prices
\* fall strictly sends exactly one sell-to-close limit order of volume 1 at
\* t1 - 10, resets the target to 0 and puts one log event.
C5_Effect(s) ==
    /\ NewOrders(s) =
         <<[vt_symbol |-> s, direction |-> "SHORT", type |-> "LIMIT",
            price |-> ticks'[s].last_price - 10, volume |-> 1,
            offset |-> "CLOSE"]>>
    /\ trading_targets'[s] = 0
    /\ CountType(NewEvents(s), "eLog") = 1

C5_SellToClose ==
    [][\A s \in trading_symbols :
          (TickStep(s) /\ trading_targets[s] = 1 /\ Falling(tick_history'[s]))
          => C5_Effect(s)]_vars

\* prices 10, 11, 12, 12, 11, 10 were handled: a buy, then a sell
C5_Witness ==
    \E s \in trading_symbols :
        /\ Evaluated(s)
        /\ [i \in 1..Len(tick_history[s]) |-> tick_history[s][i].last_price]
              = <<10, 11, 12, 12, 11, 10>>
        /\ trading_targets[s] = 0
        /\ Len(gateway_orders[s]) = 2
        /\ IsBuy(gateway_orders[s][1])
        /\ IsSell(gateway_orders[s][2])

\* -----------------------------------------------------------------
\* C6: no step sends a buy order for an instrument that is Long nor a sell
\* order for one that is Flat; a strictly rising tick on a Long instrument
\* sends no order and leaves the target at 1.
C6_StateGate ==
    [][\A s \in Symbols :
          /\ trading_targets[s] = 1 =>
                \A i \in 1..Len(NewOrders(s)) : ~IsBuy(NewOrders(s)[i])
          /\ trading_targets[s] = 0 =>
                \A i \in 1..Len(NewOrders(s)) : ~IsSell(NewOrders(s)[i])
          /\ (TickStep(s) /\ trading_targets[s] = 1 /\ Rising(tick_history'[s]))
                => (gateway_orders'[s] = gateway_orders[s]
                    /\ trading_targets'[s] = 1)]_vars

\* a rising triple was evaluated on an instrument that was Long already:
\* its single order is a buy logged at an earlier tick
C6_Witness ==
    \E s \in trading_symbols :
        /\ Evaluated(s)
        /\ Rising(tick_history[s])
        /\ trading_targets[s] = 1
        /\ Len(gateway_orders[s]) = 1
        /\ IsBuy(gateway_orders[s][1])
        /\ \E i \in 1..Len(events_put[s]) :
              /\ events_put[s][i].type = "eLog"
              /\ events_put[s][i].msg[3] < ticks[s].datetime

\* -----------------------------------------------------------------
\* C7: a tick after which two consecutive prices among the three newest are
\* equal sends no order and leaves the target state as it was.
C7_Plateau ==
    [][\A s \in trading_symbols :
          (TickStep(s) /\ Plateau(tick_history'[s]))
          => (gateway_orders' = gateway_orders
              /\ trading_targets' = trading_targets)]_vars

\* a plateau was evaluated on a Long instrument
C7_Witness ==
    \E s \in trading_symbols :
        /\ Evaluated(s)
        /\ Plateau(tick_history[s])
        /\ trading_targets[s] = 1
        /\ Len(gateway_orders[s]) = 1

\* -----------------------------------------------------------------
\* C8: while fewer than 3 ticks have been received for a traded instrument
\* no order has been sent for it and its target state is 0.
C8_InsufficientHistory ==
    \A s \in trading_symbols :
        received["tick"][s] < 3
        => (gateway_orders[s] = << >> /\ trading_targets[s] = 0)

\* two rising ticks of a traded instrument with a known contract, while the
\* other instrument has ticks of its own
C8_Witness ==
    \E s \in trading_symbols :
        /\ s \in DOMAIN contracts
        /\ received["tick"][s] = 2
        /\ PriceAt(tick_history[s], 1) > PriceAt(tick_history[s], 2)
        /\ \E o \in trading_symbols \ {s} : received["tick"][o] >= 2
        /\ gateway_orders[s] = << >>

\* -----------------------------------------------------------------
\* C9: every tick of a traded instrument with at least 3 ticks of history
\* puts exactly one Signal event carrying the instrument, the timestamp and
\* price of that tick and the target state after the evaluation.
C9_Effect(s) ==
    /\ CountType(NewEvents(s), "eStrategy") = 1
    /\ \E i \in 1..Len(NewEvents(s)) :
          NewEvents(s)[i] =
             [type |-> "eStrategy", vt_symbol |-> s,
              datetime |-> ticks'[s].datetime,
              last_price |-> ticks'[s].last_price,
              trading_target |-> trading_targets'[s]]

C9_SignalEveryTick ==
    [][\A s \in trading_symbols :
          (TickStep(s) /\ Len(tick_history'[s]) >= 3) => C9_Effect(s)]_vars

\* the same with the contract of the instrument stored
C9_SignalEveryTickKnownContract ==
    [][\A s \in trading_symbols :
          (TickStep(s) /\ Len(tick_history'[s]) >= 3 /\ s \in DOMAIN contracts)
          => C9_Effect(s)]_vars

\* -----------------------------------------------------------------
\* C10: a valuation pass ends without error and prints one line, of value
\* volume * last price * size, for exactly the stored positions whose
\* instrument has a stored tick and a stored contract.
LinesOf(lines, s, d) ==
    {i \in 1..Len(lines) : lines[i].vt_symbol = s /\ lines[i].direction = d}

Valued(s, d) ==
    /\ \E i \in 1..Len(positions) :
          positions[i].vt_symbol = s /\ positions[i].direction = d
    /\ s \in DOMAIN ticks
    /\ s \in DOMAIN contracts

C10_Valuation ==
    [][TimerStep =>
         /\ raised' = "none"
         /\ \A s \in Symbols, d \in Directions :
               IF Valued(s, d)
               THEN /\ Cardinality(LinesOf(printed', s, d)) = 1
                    /\ \A i \in LinesOf(printed', s, d) :
                       \E j \in 1..Len(positions) :
                          /\ positions[j].vt_symbol = s
                          /\ positions[j].direction = d
                          /\ printed'[i].value =
                                positions[j].volume * ticks[s].last_price
                                   * contracts[s].size
               ELSE LinesOf(printed', s, d) = {}]_vars

\* a pass printed one line while another stored position has no tick
C10_Witness ==
    /\ Len(printed) = 1
    /\ Len(positions) >= 2
    /\ \E i \in 1..Len(positions) :
          /\ positions[i].vt_symbol \notin DOMAIN ticks
          /\ positions[i].vt_symbol \in DOMAIN contracts

\* -----------------------------------------------------------------
\* C11: every tick of a traded instrument ends without an error: either it
\* does nothing (fewer than 3 ticks) or it evaluates both checks and puts
\* the status event, whatever the contract map holds.
C11_TickNeverRaises ==
    [][\A s \in trading_symbols :
          TickStep(s) =>
             /\ raised' = "none"
             /\ IF Len(tick_history'[s]) < 3
                THEN /\ gateway_orders' = gateway_orders
                     /\ events_put' = events_put
                     /\ trading_targets' = trading_targets
                ELSE CountType(NewEvents(s), "eStrategy") = 1]_vars

\* -----------------------------------------------------------------
\* C12: when the gateway rejects the order of a transition, the engine
\* applies the transition, sends the order once, and puts a log event that
\* reports the failure.
SuccessLog(e) ==
    e.type = "eLog" /\ e.msg[2] \in {"buy open 1", "sell close 1"}
FailureLog(e) == e.type = "eLog" /\ ~SuccessLog(e)

RejectedStep(s) ==
    /\ Len(orders_rejected'[s]) > Len(orders_rejected[s])
    /\ orders_rejected'[s][Len(orders_rejected'[s])]

C12_RejectedOrder ==
    [][\A s \in Symbols :
          RejectedStep(s) =>
             /\ trading_targets'[s] # trading_targets[s]
             /\ Len(NewOrders(s)) = 1
             /\ \E i \in 1..Len(NewEvents(s)) : FailureLog(NewEvents(s)[i])]_vars

\* what the engine does on a rejected order: the transition is applied, the
\* order is sent once, and the events put are those of an accepted order
C12_RejectedOrderAsAccepted ==
    [][\A s \in Symbols :
          RejectedStep(s) =>
             /\ trading_targets'[s] # trading_targets[s]
             /\ Len(NewOrders(s)) = 1
             /\ Len(NewEvents(s)) = 2
             /\ SuccessLog(NewEvents(s)[1])
             /\ NewEvents(s)[2].type = "eStrategy"]_vars

\* -----------------------------------------------------------------
\* C13: handling one tick sends at most one order, although the short check
\* reads the target state that the long check may just have changed.
C13_AtMostOneOrderPerTick ==
    [][\A s \in Symbols :
          /\ Len(gateway_orders'[s]) <= Len(gateway_orders[s]) + 1
          /\ \A o \in Symbols \ {s} :
                Len(gateway_orders'[s]) > Len(gateway_orders[s])
                => gateway_orders'[o] = gateway_orders[o]]_vars

\* the long check fired on the latest tick and the short check ran after it
C13_Witness ==
    \E s \in trading_symbols :
        /\ Evaluated(s)
        /\ Rising(tick_history[s])
        /\ trading_targets[s] = 1
        /\ Len(gateway_orders[s]) = 1
        /\ Len(events_put[s]) >= 2
        /\ events_put[s][Len(events_put[s]) - 1].type = "eLog"
        /\ events_put[s][Len(events_put[s]) - 1].msg[3] = ticks[s].datetime

\* -----------------------------------------------------------------
\* C14: the target state of every instrument is 0 or 1 in every state.
C14_TargetRange ==
    \A s \in Symbols : trading_targets[s] \in {0, 1}

\* prices 10, 11, 12, 11, 10: the target went to 1 and came back to 0
C14_Witness ==
    \E s \in trading_symbols :
        /\ [i \in 1..Len(tick_history[s]) |-> tick_history[s][i].last_price]
              = <<10, 11, 12, 11, 10>>
        /\ Len(gateway_orders[s]) = 2
        /\ trading_targets[s] = 0

\* -----------------------------------------------------------------
\* C15: the subscribed set only grows, under every event of any kind.
C15_SubscribedMonotonic ==
    [][subscribed \subseteq subscribed']_vars

\* a second key was added to a set that held one already
C15_Witness ==
    /\ subscribed = Symbols
    /\ \A s \in Symbols : SubscribeCount(s, "position") = 1

C17_NoEventBeforeLoaded ==
    [][/\ setting.status # "ok" => phase' \in {"created", "failed"}
       /\ received' # received => phase = "loaded"]_vars

\* -----------------------------------------------------------------
\* C18: a tick event changes only the tick map, the tick history and the
\* target state; a contract event only the contract map; a position event
\* only the position map and the subscribed set; a valuation pass nothing.
C18_Frame ==
    [][/\ \A s \in Symbols :
             /\ TickStep(s) =>
                   UNCHANGED <<contracts, positions, subscribed, trading_symbols>>
             /\ ContractStep(s) =>
                   UNCHANGED <<ticks, positions, subscribed, tick_history,
                               trading_targets, trading_symbols>>
             /\ PositionStep(s) =>
                   UNCHANGED <<ticks, contracts, tick_history, trading_targets,
                               trading_symbols>>
       /\ TimerStep =>
             UNCHANGED <<ticks, contracts, positions, subscribed, tick_history,
                         trading_symbols, trading_targets>>]_vars

\* every kind of event was handled for one traded instrument, the last one
\* a valuation pass that printed both of its positions
C18_Witness ==
    \E s \in trading_symbols :
        /\ received["tick"][s] >= 1
        /\ received["contract"][s] >= 1
        /\ received["position"][s] >= 2
        /\ s \in subscribed
        /\ Len(printed) = 2

\* -----------------------------------------------------------------
\* C19: for every instrument the buy-to-open orders sent minus the
\* sell-to-close orders sent equal its target state; its orders alternate
\* buy, sell, buy, ... starting with a buy.
BuyCount(s) ==
    Cardinality({i \in 1..Len(gateway_orders[s]) : IsBuy(gateway_orders[s][i])})
SellCount(s) ==
    Cardinality({i \in 1..Len(gateway_orders[s]) : IsSell(gateway_orders[s][i])})

C19_OrdersAlternate ==
    \A s \in Symbols :
        /\ BuyCount(s) - SellCount(s) = trading_targets[s]
        /\ \A i \in 1..Len(gateway_orders[s]) :
              IF i % 2 = 1 THEN IsBuy(gateway_orders[s][i])
              ELSE IsSell(gateway_orders[s][i])

\* a buy at 22 and a sell at 0 after six ticks, both accepted
C19_Witness ==
    \E s \in trading_symbols :
        /\ Len(tick_history[s]) = 6
        /\ Len(gateway_orders[s]) = 2
        /\ gateway_orders[s][1].price = 22
        /\ gateway_orders[s][2].price = 0
        /\ orders_rejected[s] = <<FALSE, FALSE>>

\* -----------------------------------------------------------------
\* C20: every key of the subscribed set has a stored contract, is the
\* instrument of a stored position and has had a subscribe request issued.
C20_SubscribedImplies ==
    \A s \in subscribed :
        /\ s \in DOMAIN contracts
        /\ HasPosition(s)
        /\ Len(gateway_subscribes[s]) >= 1

\* one instrument subscribed through its positions, while another has a
\* contract, a position and a contract-driven request and is not in the set
C20_Witness ==
    \E s \in subscribed, o \in Symbols \ subscribed :
        /\ received["position"][s] >= 2
        /\ o \in DOMAIN contracts
        /\ HasPosition(o)
        /\ Len(gateway_subscribes[o]) >= 1

====
